---- MODULE Spec2Model ----
(***************************************************************************)
(* Model of scripts/load_test.py: the load generator that runs `users`     *)
(* simulated interview sessions on a ThreadPoolExecutor and sums the       *)
(* requests they made.                                                     *)
(*                                                                         *)
(* A session (run_single_interview) is modelled at the granularity of its  *)
(* blocking points: the GET of the landing page, each POST to /next and    *)
(* each time.sleep.  The code a thread runs between two blocking points is *)
(* local to the thread and is one step of the model.  The main thread      *)
(* (main) is modelled from the creation of the pool to the summary or to   *)
(* the exception that ends the process.                                    *)
(*                                                                         *)
(* Spec is the whole program with the worker threads counted; SpecPool     *)
(* tells the worker threads apart; SpecOneUser is one session over a wider *)
(* grid of delays; SpecId is one call of random_session_id, character by   *)
(* character; FairSpec is the program under fair scheduling.               *)
(***************************************************************************)
EXTENDS Integers, Sequences, FiniteSets, TLC

\* ------------------------------------------------------------------ bounds
MaxUsers == 2
MaxTurns == 2
MaxDelay == 1
MaxDuration == 2
MaxPause == 2
MaxLength == 2

\* ------------------------------------------------------- input domains
\* --users and --turns (type=int): a number of users and a number of turns,
\* natural numbers.
UserCounts == 0..MaxUsers
TurnCounts == 0..MaxTurns
\* --min-delay and --max-delay (type=float, on an integer grid).  A negative
\* --max-delay behaves as 0 (line 59), a negative --min-delay does not.
MinDelays == -1..MaxDelay
MaxDelays == 0..MaxDelay
\* --max-workers: <<>> is None (the default), <<n>> an explicit integer.  An
\* integer at or above the number of users gives the pool of the default.
WorkerOverrides == {<<>>} \cup {<<n>> : n \in -1..(MaxUsers - 1)}

\* --interview-id: the interview configuration key (default STOCK_MARKET).
InterviewIds == {"STOCK_MARKET"}

Sessions == 1..MaxUsers

\* The target lengths random_session_id is called with.
Lengths == 0..MaxLength

\* What time.time() - global_start can be at line 137, in whole seconds.
Durations == 0..MaxDuration

\* What a call of requests.get / requests.post can come back with: a response
\* with a status and a body (resp.text) that resp.json() parses or not, or an
\* exception raised by the transport (no response).
StatusCodes == {200, 500}
JsonBodies == {"{}"}
RawBodies == {"<html>"}
Bodies == JsonBodies \cup RawBodies
Responses ==
    {[kind |-> "response", status |-> st, parseable |-> b \in JsonBodies,
      body |-> b] : st \in StatusCodes, b \in Bodies}
    \cup {[kind |-> "exception"]}

\* ------------------------------------------------------------- state
VARIABLES
    args,             \* the parsed command line (argparse namespace)
    max_workers,      \* main: max_workers (line 110)
    mainpc,           \* main: position of the main thread
    submitted,        \* main: number of executor.submit calls made
    total_requests,   \* main: total_requests (lines 118, 135)
    consumed,         \* main: times future s was yielded by as_completed
    counted,          \* main: what consuming future s added to total_requests
    raised,           \* main: the exception propagating out of main, or "None"
    total_duration,   \* main: total_duration (line 137)
    rps,              \* main: rps (line 138), a fraction in lowest terms
    phase,            \* session s: position of its task
    turn,             \* session s: loop variable `turn`
    s_total_requests, \* session s: local total_requests (lines 34, 39, 51)
    issued,           \* session s: requests handed to the transport
    answered,         \* session s: requests the transport has returned from
    slept,            \* session s: calls of time.sleep that paused
    delay,            \* session s: duration of the pause in progress, or 0
    outcome,          \* session s: what its future holds
    sent,             \* session s: the requests it made, in order
    worker,           \* session s: the worker thread that took its task, or 0
    length,           \* random_session_id: its argument
    picked,           \* random_session_id: the characters chosen so far
    result            \* random_session_id: the string returned, or NoResult

mainvars == <<args, max_workers, mainpc, submitted, total_requests, consumed,
              counted, raised, total_duration, rps>>
sessvars == <<phase, turn, s_total_requests, issued, answered, slept, delay,
              outcome, sent, worker>>
vars == <<args, max_workers, mainpc, submitted, total_requests, consumed,
          counted, raised, total_duration, rps, phase, turn, s_total_requests, issued, answered,
          slept, delay, outcome, sent, worker, length, picked, result>>
idvars == <<length, picked, result>>

Terminal == {"DONE", "FAILED"}
Started  == {"INIT", "LANDING_SENT", "TURN_SENT", "DELAY"}

Pending == [kind |-> "pending"]
Success(n) == [kind |-> "ok", requestCount |-> n]
Failure(e) == [kind |-> "error", exc |-> e]

\* session_id = random_session_id() (line 32), assigned once per task and
\* never again: the identifier of the session of task s.
SessionId(s) == <<"session", s>>

\* requests.get(url_landing), url_landing = base_url/interview_id/session_id
LandingRequest(sid, iid) ==
    [method |-> "GET", session_id |-> sid, interview_id |-> iid]

\* requests.post(url_next, json=payload): the payload of turn t, whose
\* user_message is f"Dummy answer turn {turn}".
TurnRequestFreshId(sid, iid, t) ==
    [method |-> "POST", session_id |-> <<"session", sid, t>>,
     interview_id |-> iid, user_message |-> <<"Dummy answer turn", t>>]
TurnRequest(sid, iid, t) ==
    [method |-> "POST", session_id |-> sid, interview_id |-> iid,
     user_message |-> <<"Dummy answer turn", t>>]

\* RuntimeError(f"Non-JSON response for session {session_id}: {resp.text}")
NonJsonFailureNoBody(sid, text) ==
    [kind |-> "error", exc |-> "RuntimeError", session_id |-> sid]
NonJsonFailure(sid, text) ==
    [kind |-> "error", exc |-> "RuntimeError", session_id |-> sid,
     body |-> text]

\* ----------------------------------------------------- pure functions
\* string.ascii_lowercase, string.ascii_uppercase, string.digits: a string is
\* the sequence of its characters.
AsciiLowercase ==
    <<"a", "b", "c", "d", "e", "f", "g", "h", "i", "j", "k", "l",
      "m", "n", "o", "p", "q", "r", "s", "t", "u", "v", "w", "x",
      "y", "z">>
AsciiUppercase ==
    <<"A", "B", "C", "D", "E", "F", "G", "H", "I", "J", "K", "L",
      "M", "N", "O", "P", "Q", "R", "S", "T", "U", "V", "W", "X",
      "Y", "Z">>
Digits == <<"0", "1", "2", "3", "4", "5", "6", "7", "8", "9">>
AsciiLetters == AsciiLowercase \o AsciiUppercase

\* chars = string.ascii_letters + string.digits
CharsWithPunctuation == AsciiLetters \o Digits \o <<"-", "_">>
Chars == AsciiLetters \o Digits

\* "".join(parts): the concatenation of the strings of parts.
RECURSIVE Join(_)
Join(parts) ==
    IF parts = <<>> THEN <<>> ELSE Head(parts) \o Join(Tail(parts))

\* What a call has returned: nothing yet, or a string.
NoResult == [kind |-> "none"]
Returned(text) == [kind |-> "str", text |-> text]

\* max_workers = args.max_workers or args.users
EffectiveWorkers(override, users) ==
    IF override = <<>> \/ override[1] = 0 THEN users ELSE override[1]

\* Response.raise_for_status(): raises HTTPError on a 4xx or 5xx status.
RaiseForStatus(status) == status >= 400 /\ status < 600

\* for turn in range(num_turns): is there an iteration with this index?
LoopHasNextInclusive(t, num_turns) == t <= num_turns
LoopHasNextAtLeastOnce(t, num_turns) == t < num_turns \/ t = 0
LoopHasNext(t, num_turns) == t < num_turns

\* if turn < num_turns - 1 and max_delay > 0:
ShouldSleepAfterLast(t, num_turns, maxd) == t < num_turns /\ maxd > 0
ShouldSleepOnZero(t, num_turns, maxd) == t < num_turns - 1 /\ maxd >= 0
ShouldSleepSkipFirst(t, num_turns, maxd) ==
    0 < t /\ t < num_turns - 1 /\ maxd > 0
ShouldSleep(t, num_turns, maxd) == t < num_turns - 1 /\ maxd > 0

\* random.uniform(a, b) = a + (b - a) * random(): any value between the two
\* arguments, whichever is the larger.
UniformRangeFromZero(a, b) == 0..b
UniformRange(a, b) == IF a <= b THEN a..b ELSE b..a

\* total_requests += reqs
AccumulateOverwrite(total, reqs) == reqs
AccumulateFirstOnly(total, reqs) == IF total = 0 THEN reqs ELSE total
AccumulateOne(total, reqs) == total + 1
Accumulate(total, reqs) == total + reqs

\* a / b on floats: ZeroDivisionError when b is 0, else the quotient, kept
\* as a fraction in lowest terms with a positive denominator.
RECURSIVE Gcd(_, _)
Gcd(a, b) == IF b = 0 THEN a ELSE Gcd(b, a % b)
Abs(x) == IF x < 0 THEN -x ELSE x
Fraction(n, d) == [error |-> FALSE, num |-> n, den |-> d]
Divide(a, b) ==
    IF b = 0 THEN [error |-> TRUE, num |-> 0, den |-> 1]
    ELSE LET g == Gcd(Abs(a), Abs(b))
             sign == IF b < 0 THEN -1 ELSE 1
         IN  Fraction(sign * (a \div g), Abs(b) \div g)

\* rps = total_requests / total_duration if total_duration > 0 else 0.0
ThroughputGuardNotNegative(total, duration) ==
    IF duration >= 0 THEN Divide(total, duration) ELSE Fraction(0, 1)
Throughput(total, duration) ==
    IF duration > 0 THEN Divide(total, duration) ELSE Fraction(0, 1)

\* Leaving the `with ThreadPoolExecutor(...)` block calls
\* shutdown(wait=True) with cancel_futures left False: a work item still in
\* the queue stays there and is run.
AfterShutdownCancelled(ph) == IF ph = "QUEUED" THEN "CANCELLED" ELSE ph
AfterShutdown(ph) == ph

\* as_completed yields a future once, when it has completed.
Yieldable(ph, times) == ph \in Terminal /\ times = 0

\* ---------------------------------------------------------------- Init
\* The state when main starts, whatever the command line.
InitState ==
    /\ max_workers = 0
    /\ mainpc = "start"
    /\ submitted = 0
    /\ total_requests = 0
    /\ consumed = [s \in Sessions |-> 0]
    /\ counted = [s \in Sessions |-> 0]
    /\ raised = "None"
    /\ total_duration = 0
    /\ rps = Fraction(0, 1)
    /\ phase = [s \in Sessions |-> "UNSUBMITTED"]
    /\ turn = [s \in Sessions |-> 0]
    /\ s_total_requests = [s \in Sessions |-> 0]
    /\ issued = [s \in Sessions |-> 0]
    /\ answered = [s \in Sessions |-> 0]
    /\ slept = [s \in Sessions |-> 0]
    /\ delay = [s \in Sessions |-> 0]
    /\ outcome = [s \in Sessions |-> Pending]
    /\ sent = [s \in Sessions |-> <<>>]
    /\ worker = [s \in Sessions |-> 0]

\* No call of random_session_id is followed character by character: the
\* identifier of a session is the token SessionId(s).
InitNoCall ==
    /\ length = 0
    /\ picked = <<>>
    /\ result = NoResult

Init ==
    /\ args \in [users : UserCounts, turns : TurnCounts,
                 min_delay : MinDelays, max_delay : MaxDelays,
                 max_workers : WorkerOverrides, interview_id : InterviewIds]
    /\ InitState
    /\ InitNoCall

\* ------------------------------------------------------ session task
\* The sessions whose task a worker thread is running.
Running == {s \in Sessions : phase[s] \in Started}

\* The executor's work queue is FIFO: the next work item a free worker takes
\* is the oldest one queued.
HeadOfQueueRetry(s) ==
    /\ phase[s] \in {"QUEUED", "FAILED"}
    /\ \A r \in Sessions : phase[r] \in {"QUEUED", "FAILED"} => s <= r
HeadOfQueue(s) ==
    /\ phase[s] = "QUEUED"
    /\ \A r \in Sessions : phase[r] = "QUEUED" => s <= r

\* A worker thread takes the work item of session s and enters
\* run_single_interview: session_id, start_time, total_requests = 0.
StartSessionUnbounded(s) ==
    /\ HeadOfQueue(s)
    /\ phase' = [phase EXCEPT ![s] = "INIT"]
    /\ s_total_requests' = [s_total_requests EXCEPT ![s] = 0]
    /\ UNCHANGED <<turn, issued, answered, slept, delay, outcome, sent,
                   worker>>
    /\ UNCHANGED mainvars
    /\ UNCHANGED idvars
StartSessionStarved(s) ==
    /\ HeadOfQueue(s)
    /\ Cardinality(Running) + 1 < max_workers
    /\ phase' = [phase EXCEPT ![s] = "INIT"]
    /\ s_total_requests' = [s_total_requests EXCEPT ![s] = 0]
    /\ UNCHANGED <<turn, issued, answered, slept, delay, outcome, sent,
                   worker>>
    /\ UNCHANGED mainvars
    /\ UNCHANGED idvars
StartSessionSharedCount(s) ==
    /\ HeadOfQueue(s)
    /\ Cardinality(Running) < max_workers
    /\ phase' = [phase EXCEPT ![s] = "INIT"]
    /\ s_total_requests' = [r \in Sessions |-> 0]
    /\ UNCHANGED <<turn, issued, answered, slept, delay, outcome, sent,
                   worker>>
    /\ UNCHANGED mainvars
    /\ UNCHANGED idvars
StartSession(s) ==
    /\ HeadOfQueue(s)
    /\ Cardinality(Running) < max_workers
    /\ phase' = [phase EXCEPT ![s] = "INIT"]
    /\ s_total_requests' = [s_total_requests EXCEPT ![s] = 0]
    /\ UNCHANGED <<turn, issued, answered, slept, delay, outcome, sent,
                   worker>>
    /\ UNCHANGED mainvars
    /\ UNCHANGED idvars

\* The same step with the worker thread named.  The worker threads of the
\* pool are 1..max_workers; one that is running no task takes the oldest work
\* item of the queue and runs it.
Workers == 1..max_workers
FreeWorkers == Workers \ {worker[s] : s \in Running}

WorkerTakesWhileBusy(w, s) ==
    /\ w \in Workers
    /\ Cardinality(Running) < max_workers
    /\ HeadOfQueue(s)
    /\ worker' = [worker EXCEPT ![s] = w]
    /\ phase' = [phase EXCEPT ![s] = "INIT"]
    /\ s_total_requests' = [s_total_requests EXCEPT ![s] = 0]
    /\ UNCHANGED <<turn, issued, answered, slept, delay, outcome, sent>>
    /\ UNCHANGED mainvars
    /\ UNCHANGED idvars
WorkerTakes(w, s) ==
    /\ w \in FreeWorkers
    /\ HeadOfQueue(s)
    /\ worker' = [worker EXCEPT ![s] = w]
    /\ phase' = [phase EXCEPT ![s] = "INIT"]
    /\ s_total_requests' = [s_total_requests EXCEPT ![s] = 0]
    /\ UNCHANGED <<turn, issued, answered, slept, delay, outcome, sent>>
    /\ UNCHANGED mainvars
    /\ UNCHANGED idvars

\* resp = requests.get(url_landing): the call is made and blocks.
SendLandingNoWait(s) ==
    /\ phase[s] = "INIT"
    /\ IF LoopHasNext(0, args.turns)
         THEN /\ phase' = [phase EXCEPT ![s] = "TURN_SENT"]
              /\ issued' = [issued EXCEPT ![s] = @ + 2]
              /\ sent' = [sent EXCEPT ![s] =
                    <<LandingRequest(SessionId(s), args.interview_id),
                      TurnRequest(SessionId(s), args.interview_id, 0)>>]
         ELSE /\ phase' = [phase EXCEPT ![s] = "LANDING_SENT"]
              /\ issued' = [issued EXCEPT ![s] = @ + 1]
              /\ sent' = [sent EXCEPT ![s] =
                    <<LandingRequest(SessionId(s), args.interview_id)>>]
    /\ UNCHANGED <<turn, s_total_requests, answered, slept, delay, outcome,
                   worker>>
    /\ UNCHANGED mainvars
    /\ UNCHANGED idvars
SendLanding(s) ==
    /\ phase[s] = "INIT"
    /\ phase' = [phase EXCEPT ![s] = "LANDING_SENT"]
    /\ issued' = [issued EXCEPT ![s] = @ + 1]
    /\ sent' = [sent EXCEPT ![s] =
          Append(@, LandingRequest(SessionId(s), args.interview_id))]
    /\ UNCHANGED <<turn, s_total_requests, answered, slept, delay, outcome,
                   worker>>
    /\ UNCHANGED mainvars
    /\ UNCHANGED idvars

\* An exception leaves run_single_interview: the task ends and the future
\* holds the exception.
RaiseWith(s, f) ==
    /\ phase' = [phase EXCEPT ![s] = "FAILED"]
    /\ outcome' = [outcome EXCEPT ![s] = f]
    /\ UNCHANGED <<turn, issued, delay, slept, sent, worker>>

Raise(s, e) == RaiseWith(s, Failure(e))

\* The for statement reaches index t with n requests counted: either the
\* body runs and posts turn t, or the loop is over and the function returns
\* (total_requests, duration).
Iterate(s, t, n) ==
    IF LoopHasNext(t, args.turns)
      THEN /\ phase' = [phase EXCEPT ![s] = "TURN_SENT"]
           /\ turn' = [turn EXCEPT ![s] = t]
           /\ issued' = [issued EXCEPT ![s] = @ + 1]
           /\ sent' = [sent EXCEPT ![s] =
                 Append(@, TurnRequest(SessionId(s), args.interview_id, t))]
           /\ UNCHANGED outcome
      ELSE /\ phase' = [phase EXCEPT ![s] = "DONE"]
           /\ outcome' = [outcome EXCEPT ![s] = Success(n)]
           /\ UNCHANGED <<turn, issued, sent>>

\* requests.get returns or raises; total_requests += 1; raise_for_status();
\* then the loop starts.
LandingResponseCountAfterCheck(s, r) ==
    /\ phase[s] = "LANDING_SENT"
    /\ answered' = [answered EXCEPT ![s] = @ + 1]
    /\ UNCHANGED worker
    /\ IF r.kind = "exception"
         THEN /\ Raise(s, "ConnectionError")
              /\ UNCHANGED s_total_requests
         ELSE IF RaiseForStatus(r.status)
           THEN /\ Raise(s, "HTTPError")
                /\ UNCHANGED s_total_requests
           ELSE /\ s_total_requests' = [s_total_requests EXCEPT ![s] = @ + 1]
                /\ Iterate(s, 0, s_total_requests[s] + 1)
                /\ UNCHANGED <<delay, slept>>
    /\ UNCHANGED mainvars
    /\ UNCHANGED idvars
LandingResponse(s, r) ==
    /\ phase[s] = "LANDING_SENT"
    /\ answered' = [answered EXCEPT ![s] = @ + 1]
    /\ UNCHANGED worker
    /\ IF r.kind = "exception"
         THEN /\ Raise(s, "ConnectionError")
              /\ UNCHANGED s_total_requests
         ELSE /\ s_total_requests' = [s_total_requests EXCEPT ![s] = @ + 1]
              /\ IF RaiseForStatus(r.status)
                   THEN Raise(s, "HTTPError")
                   ELSE /\ Iterate(s, 0, s_total_requests[s] + 1)
                        /\ UNCHANGED <<delay, slept>>
    /\ UNCHANGED mainvars
    /\ UNCHANGED idvars

\* requests.post returns or raises; total_requests += 1; raise_for_status();
\* resp.json(); then the pause, if any, or the next iteration.
TurnResponse(s, r) ==
    /\ phase[s] = "TURN_SENT"
    /\ answered' = [answered EXCEPT ![s] = @ + 1]
    /\ UNCHANGED worker
    /\ IF r.kind = "exception"
         THEN /\ Raise(s, "ConnectionError")
              /\ UNCHANGED s_total_requests
         ELSE
           /\ s_total_requests' = [s_total_requests EXCEPT ![s] = @ + 1]
           /\ IF RaiseForStatus(r.status)
                THEN Raise(s, "HTTPError")
              ELSE IF ~r.parseable
                THEN RaiseWith(s, NonJsonFailure(SessionId(s), r.body))
              ELSE IF ShouldSleep(turn[s], args.turns, args.max_delay)
                THEN \E d \in UniformRange(args.min_delay, args.max_delay) :
                       IF d < 0
                         THEN \* time.sleep raises ValueError at once
                              Raise(s, "ValueError")
                         ELSE /\ phase' = [phase EXCEPT ![s] = "DELAY"]
                              /\ delay' = [delay EXCEPT ![s] = d]
                              /\ slept' = [slept EXCEPT ![s] = @ + 1]
                              /\ UNCHANGED <<turn, issued, outcome, sent>>
              ELSE /\ Iterate(s, turn[s] + 1, s_total_requests[s] + 1)
                   /\ UNCHANGED <<delay, slept>>
    /\ UNCHANGED mainvars
    /\ UNCHANGED idvars

\* time.sleep returns: the pause is over, the next iteration of the loop.
WakeUp(s) ==
    /\ phase[s] = "DELAY"
    /\ Iterate(s, turn[s] + 1, s_total_requests[s])
    /\ delay' = [delay EXCEPT ![s] = 0]
    /\ UNCHANGED <<s_total_requests, answered, slept, worker>>
    /\ UNCHANGED mainvars
    /\ UNCHANGED idvars

SessionStep(s) ==
    \/ StartSession(s)
    \/ SendLanding(s)
    \/ \E r \in Responses : LandingResponse(s, r)
    \/ \E r \in Responses : TurnResponse(s, r)
    \/ WakeUp(s)

\* ------------------------------------------------------------ main thread
AllTerminal == \A s \in 1..args.users : phase[s] \in Terminal

\* Lines 110-120: max_workers, global_start, total_requests = 0 and the
\* creation of the pool, which raises ValueError when max_workers <= 0.
Setup ==
    /\ mainpc = "start"
    /\ max_workers' = EffectiveWorkers(args.max_workers, args.users)
    /\ total_requests' = 0
    /\ IF max_workers' <= 0
         THEN /\ mainpc' = "crashed"
              /\ raised' = "ValueError"
         ELSE /\ mainpc' = "submit"
              /\ UNCHANGED raised
    /\ UNCHANGED <<args, submitted, consumed, counted, total_duration, rps>>
    /\ UNCHANGED sessvars
    /\ UNCHANGED idvars

\* One executor.submit of the list comprehension (lines 121-131).
Submit ==
    /\ mainpc = "submit"
    /\ submitted < args.users
    /\ submitted' = submitted + 1
    /\ phase' = [phase EXCEPT ![submitted + 1] = "QUEUED"]
    /\ UNCHANGED <<args, max_workers, mainpc, total_requests, consumed,
                   counted, raised, total_duration, rps>>
    /\ UNCHANGED <<turn, s_total_requests, issued, answered, slept, delay,
                   outcome, sent, worker>>
    /\ UNCHANGED idvars

\* The list of futures is complete: as_completed(futures) is entered.
EnterCollect ==
    /\ mainpc = "submit"
    /\ submitted = args.users
    /\ mainpc' = "collect"
    /\ UNCHANGED <<args, max_workers, submitted, total_requests, consumed,
                   counted, raised, total_duration, rps>>
    /\ UNCHANGED sessvars
    /\ UNCHANGED idvars

\* One iteration of `for future in as_completed(futures)`: future.result()
\* returns (reqs, _) or re-raises the exception of the task; the exception
\* leaves the loop and the with block, whose exit shuts the executor down.
Consume(s) ==
    /\ mainpc = "collect"
    /\ s \in 1..args.users
    /\ Yieldable(phase[s], consumed[s])
    /\ consumed' = [consumed EXCEPT ![s] = @ + 1]
    /\ IF outcome[s].kind = "ok"
         THEN /\ total_requests' =
                    Accumulate(total_requests, outcome[s].requestCount)
              /\ counted' = [counted EXCEPT ![s] =
                    total_requests' - total_requests]
              /\ UNCHANGED <<mainpc, raised, phase>>
         ELSE /\ raised' = outcome[s].exc
              /\ mainpc' = "unwind"
              /\ phase' = [r \in Sessions |-> AfterShutdown(phase[r])]
              /\ UNCHANGED <<total_requests, counted>>
    /\ UNCHANGED <<args, max_workers, submitted, total_duration, rps>>
    /\ UNCHANGED <<turn, s_total_requests, issued, answered, slept, delay,
                   outcome, sent, worker>>
    /\ UNCHANGED idvars

\* as_completed is exhausted: the with block is left, total_duration and rps
\* are computed and the summary is printed (lines 137-143).
SummariseEarly ==
    /\ mainpc = "collect"
    /\ \E d \in Durations :
          LET r == Throughput(total_requests, d)
          IN  /\ total_duration' = d
              /\ IF r.error
                   THEN /\ mainpc' = "crashed"
                        /\ raised' = "ZeroDivisionError"
                        /\ UNCHANGED rps
                   ELSE /\ mainpc' = "finished"
                        /\ rps' = r
                        /\ UNCHANGED raised
    /\ UNCHANGED <<args, max_workers, submitted, total_requests, consumed,
                   counted>>
    /\ UNCHANGED sessvars
    /\ UNCHANGED idvars
Summarise ==
    /\ mainpc = "collect"
    /\ \A s \in 1..args.users : consumed[s] > 0
    /\ \E d \in Durations :
          LET r == Throughput(total_requests, d)
          IN  /\ total_duration' = d
              /\ IF r.error
                   THEN /\ mainpc' = "crashed"
                        /\ raised' = "ZeroDivisionError"
                        /\ UNCHANGED rps
                   ELSE /\ mainpc' = "finished"
                        /\ rps' = r
                        /\ UNCHANGED raised
    /\ UNCHANGED <<args, max_workers, submitted, total_requests, consumed,
                   counted>>
    /\ UNCHANGED sessvars
    /\ UNCHANGED idvars

\* shutdown(wait=True) has joined the worker threads: the exception leaves
\* main and the process ends without a summary.
Unwind ==
    /\ mainpc = "unwind"
    /\ \A s \in Sessions : phase[s] \notin {"QUEUED"} \cup Started
    /\ mainpc' = "crashed"
    /\ UNCHANGED <<args, max_workers, submitted, total_requests, consumed,
                   counted, raised, total_duration, rps>>
    /\ UNCHANGED sessvars
    /\ UNCHANGED idvars

MainStep ==
    \/ Setup
    \/ Submit
    \/ EnterCollect
    \/ \E s \in Sessions : Consume(s)
    \/ Summarise
    \/ Unwind

Next ==
    \/ MainStep
    \/ \E s \in Sessions : SessionStep(s)

Spec == Init /\ [][Next]_vars

\* Threads are scheduled fairly, every request returns and every pause ends.
Fairness ==
    /\ WF_vars(MainStep)
    /\ \A s \in Sessions : WF_vars(SessionStep(s))

\* The runs whose progress is checked: pauses of a fixed length (min_delay =
\* max_delay) and a pool that can be created (a --max-workers that is absent
\* or positive).
InitFair ==
    /\ Init
    /\ args.min_delay = args.max_delay
    /\ args.max_workers = <<>> \/ args.max_workers[1] > 0

FairSpec == InitFair /\ [][Next]_vars /\ Fairness

\* The runs of one user over a wider grid of delays, min_delay above
\* max_delay included: the specification of the claims about one session.
InitOneUser ==
    /\ args \in [users : {1}, turns : TurnCounts,
                 min_delay : -1..MaxPause, max_delay : 0..MaxPause,
                 max_workers : {<<>>}, interview_id : InterviewIds]
    /\ InitState
    /\ InitNoCall

SpecOneUser == InitOneUser /\ [][Next]_vars

\* The same program with the worker threads told apart: the specification of
\* the claims about which worker runs which task.  Spec counts the running
\* tasks against max_workers and leaves `worker` at 0.
PoolSessionStep(s) ==
    \/ \E w \in Workers : WorkerTakes(w, s)
    \/ SendLanding(s)
    \/ \E r \in Responses : LandingResponse(s, r)
    \/ \E r \in Responses : TurnResponse(s, r)
    \/ WakeUp(s)

NextPool ==
    \/ MainStep
    \/ \E s \in Sessions : PoolSessionStep(s)

\* Runs with a pool that can be created and pauses of the longest length.
InitPool ==
    /\ InitFair
    /\ args.max_delay = MaxDelay

SpecPool == InitPool /\ [][NextPool]_vars

\* ------------------------------------------------- random_session_id
\* One call of random_session_id(length), on its own: the generator
\* expression yields one random.choice(chars) per index of range(length),
\* then join returns the string.
InitId ==
    /\ args = [users |-> 0, turns |-> 0, min_delay |-> 0, max_delay |-> 0,
               max_workers |-> <<>>, interview_id |-> "STOCK_MARKET"]
    /\ InitState
    /\ length \in Lengths
    /\ picked = <<>>
    /\ result = NoResult

\* random.choice(chars) for the next index of range(length): a string of
\* one character of chars.
ChooseChar ==
    /\ result = NoResult
    /\ LoopHasNext(Len(picked), length)
    /\ \E i \in 1..Len(Chars) : picked' = Append(picked, <<Chars[i]>>)
    /\ UNCHANGED <<length, result>>
    /\ UNCHANGED <<mainvars, sessvars>>

\* range(length) is exhausted: return "".join(...).
ReturnId ==
    /\ result = NoResult
    /\ ~LoopHasNext(Len(picked), length)
    /\ result' = Returned(Join(picked))
    /\ UNCHANGED <<length, picked>>
    /\ UNCHANGED <<mainvars, sessvars>>

NextId ==
    \/ ChooseChar
    \/ ReturnId

SpecId == InitId /\ [][NextId]_vars

MainTerminated == mainpc \in {"finished", "crashed"}

TypeOK ==
    /\ mainpc \in {"start", "submit", "collect", "unwind", "finished",
                   "crashed"}
    /\ submitted \in 0..MaxUsers
    /\ \A s \in Sessions :
          /\ phase[s] \in {"UNSUBMITTED", "QUEUED"} \cup Started \cup Terminal
          /\ turn[s] \in 0..MaxTurns
          /\ issued[s] \in 0..(MaxTurns + 1)

\* ------------------------------------------------------------ properties
RECURSIVE SumTo(_, _)
SumTo(f, n) == IF n = 0 THEN 0 ELSE f[n] + SumTo(f, n - 1)

\* The requests sent by all sessions of the batch.
RequestsSent == SumTo(issued, args.users)

\* Session s failed because the landing response had a non-success status.
LandingRejected(s) ==
    /\ phase[s] = "FAILED"
    /\ answered[s] = 1
    /\ outcome[s] = Failure("HTTPError")

\* Session s failed at the request of turn k: a transport error, a
\* non-success status or a body that is not JSON.
TurnFailed(s, k) ==
    /\ phase[s] = "FAILED"
    /\ answered[s] = k + 2
    /\ turn[s] = k
    /\ outcome[s].exc \in {"ConnectionError", "HTTPError", "RuntimeError"}

\* C1: for every N and T, a run in which no session failed (every landing
\* and turn request was answered with success, every turn body parseable)
\* and whose pool was created ends with the summary, and the total it
\* reports is N * (1 + T).
C1_TotalOnAllSuccess ==
    (/\ MainTerminated
     /\ max_workers > 0
     /\ \A s \in 1..args.users : phase[s] # "FAILED")
    => /\ mainpc = "finished"
       /\ total_requests = args.users * (1 + args.turns)

C1_Witness ==
    /\ mainpc = "finished"
    /\ args.users = 2
    /\ args.turns = 2
    /\ total_requests = 6

\* C2: once a session task has failed, every session task of the batch,
\* running or still queued, goes on to DONE or FAILED: none is cancelled or
\* left blocked (threads scheduled fairly, requests and pauses ending).
C2_FailureStopsNoOtherSession ==
    (\E s \in Sessions : phase[s] = "FAILED") ~> AllTerminal

\* With one worker, session 2 was still queued when session 1 failed; the
\* main thread re-raised the failure of 1 and session 2 ran to DONE.
C2_Witness ==
    /\ args.users = 2
    /\ max_workers = 1
    /\ phase[1] = "FAILED"
    /\ phase[2] = "DONE"
    /\ consumed[2] = 0
    /\ mainpc = "crashed"

\* C3: when the run is over, the outcome of every one of the N session
\* tasks has been consumed exactly once, failures included.
C3_EveryOutcomeConsumedOnce ==
    (MainTerminated /\ submitted = args.users)
    => \A s \in 1..args.users : consumed[s] = 1

\* C4: when the run is over, the total equals the number of requests sent
\* by all sessions, those of failed sessions included.
C4_TotalCountsEverySentRequest ==
    MainTerminated => total_requests = RequestsSent

\* C5: a session whose landing response has a non-success status sent
\* exactly one request (no turn request), holds a failure outcome and, when
\* the run is over, has added exactly 1 to the total.
C5_LandingFailureCountsOne ==
    \A s \in Sessions :
        (LandingRejected(s) /\ MainTerminated)
        => /\ issued[s] = 1
           /\ outcome[s].kind = "error"
           /\ counted[s] = 1

\* C6: a session that failed at turn k sent exactly k + 2 requests (none
\* after turn k), holds a failure outcome that names turn k and, when the run
\* is over, has added exactly k + 2 to the total.
C6_TurnFailureCountsAndNamesTurn ==
    \A s \in Sessions : \A k \in 0..MaxTurns :
        (TurnFailed(s, k) /\ MainTerminated)
        => /\ issued[s] = k + 2
           /\ outcome[s].kind = "error"
           /\ "turn" \in DOMAIN outcome[s]
           /\ outcome[s].turn = k
           /\ counted[s] = k + 2

\* C7: the requests of a session are strictly sequential: at most one is
\* outstanding; while the landing request is outstanding nothing else has
\* been sent; while the request of turn i is outstanding, the landing
\* request and the requests of turns 0..i-1 have all returned.
C7_RequestsSequential ==
    \A s \in Sessions :
        /\ issued[s] - answered[s] \in {0, 1}
        /\ phase[s] = "LANDING_SENT" => (issued[s] = 1 /\ answered[s] = 0)
        /\ phase[s] = "TURN_SENT" =>
              (issued[s] = turn[s] + 2 /\ answered[s] = turn[s] + 1)
        /\ phase[s] \notin {"LANDING_SENT", "TURN_SENT"} =>
              issued[s] = answered[s]

C7_Witness ==
    \E s \in Sessions :
        /\ phase[s] = "TURN_SENT"
        /\ turn[s] = 1
        /\ issued[s] = 3
        /\ answered[s] = 2

\* C8: a session in DONE holds a success outcome whose request count is
\* 1 + T, and that is the number of requests it sent.
C8_DoneCountsOnePlusTurns ==
    \A s \in Sessions :
        phase[s] = "DONE"
        => /\ outcome[s] = Success(1 + args.turns)
           /\ issued[s] = 1 + args.turns

C8_Witness ==
    \E s \in Sessions :
        /\ phase[s] = "DONE"
        /\ args.turns = 2
        /\ outcome[s].requestCount = 3

\* C9: no pause follows the final turn: the step that handles the response
\* of turn T-1 never enters DELAY and never calls time.sleep, and a session
\* enters DELAY only after a turn with index below T-1.
C9_NoPauseAfterFinalTurn ==
    [][\A s \in Sessions :
          /\ (phase[s] = "TURN_SENT" /\ turn[s] = args.turns - 1)
             => (phase'[s] # "DELAY" /\ slept'[s] = slept[s])
          /\ (phase[s] # "DELAY" /\ phase'[s] = "DELAY")
             => turn[s] < args.turns - 1]_vars

C9_Witness ==
    \E s \in Sessions :
        /\ args.max_delay > 0
        /\ args.turns = 2
        /\ phase[s] = "DONE"
        /\ slept[s] = 1

\* C10: with min_delay = max_delay = 0 no session is ever in DELAY and
\* none has ever paused, at any turn index.
C10_NoPauseWhenDelaysZero ==
    (args.min_delay = 0 /\ args.max_delay = 0)
    => \A s \in Sessions : phase[s] # "DELAY" /\ slept[s] = 0

C10_Witness ==
    \E s \in Sessions :
        /\ args.min_delay = 0
        /\ args.max_delay = 0
        /\ args.turns = 2
        /\ phase[s] = "DONE"
        /\ slept[s] = 0

\* C11: in the summary the throughput is total requests / total duration
\* when the duration is positive and 0 when the duration is 0, the division
\* never raises, and 100 requests over 10 seconds give 10.
C11_ThroughputGuarded ==
    /\ raised # "ZeroDivisionError"
    /\ mainpc = "finished" =>
          /\ rps.den > 0
          /\ total_duration > 0 =>
                rps.num * total_duration = total_requests * rps.den
          /\ total_duration = 0 => rps.num = 0
    /\ Throughput(100, 10) = Fraction(10, 1)
    /\ Throughput(100, 0) = Fraction(0, 1)

C11_Witness ==
    /\ mainpc = "finished"
    /\ total_requests = 6
    /\ total_duration = 0
    /\ rps = Fraction(0, 1)

\* C12: at every moment the number of session tasks that have started and
\* have not reached DONE or FAILED is at most max_workers, also when there
\* are more users than workers (no task ever starts when no pool could be
\* created, max_workers <= 0).
C12_RunningWithinPool ==
    LET active == {s \in Sessions : phase[s] \notin
                      {"UNSUBMITTED", "QUEUED"} \cup Terminal}
    IN  IF max_workers > 0
          THEN Cardinality(active) <= max_workers
          ELSE active = {}

\* Two users, one worker: session 1 is running while session 2 waits.
C12_Witness ==
    /\ args.users = 2
    /\ max_workers = 1
    /\ phase[1] = "TURN_SENT"
    /\ phase[2] = "QUEUED"

\* The part of the state that belongs to session s.
SessionState(s) ==
    <<phase[s], turn[s], s_total_requests[s], issued[s], answered[s],
      slept[s], delay[s], outcome[s], sent[s]>>

\* C13: DONE and FAILED are terminal: a session in either state never
\* changes again (no further request, no retry, no restart), and the step in
\* which a session fails, like the step in which main re-raises the failure,
\* changes the state of no other session.
C13_TerminalStatesFinal ==
    [][\A s \in Sessions :
          /\ phase[s] \in Terminal => SessionState(s)' = SessionState(s)
          /\ (phase[s] # "FAILED" /\ phase'[s] = "FAILED") =>
                \A r \in Sessions \ {s} : SessionState(r)' = SessionState(r)
          /\ (phase[s] = "FAILED" /\ consumed'[s] # consumed[s]) =>
                \A r \in Sessions : SessionState(r)' = SessionState(r)]_vars

\* Session 1 has failed and main has re-raised its exception while session 2
\* is still waiting for the response of a turn.
C13_Witness ==
    /\ phase[1] = "FAILED"
    /\ issued[1] = 2
    /\ mainpc = "unwind"
    /\ phase[2] = "TURN_SENT"

\* The summary main prints (lines 140-143).
Summary ==
    [total_requests |-> total_requests,
     total_duration |-> total_duration,
     rps |-> rps]

\* C14: a run whose session tasks have all resolved ends with the summary,
\* also when sessions failed, and the summary reports the number of
\* successful and the number of failed sessions, which sum to the number of
\* users.
C14_SummaryCountsSuccessAndFailure ==
    (MainTerminated /\ max_workers > 0 /\ submitted = args.users
       /\ AllTerminal)
    => /\ mainpc = "finished"
       /\ {"succeeded", "failed"} \subseteq DOMAIN Summary
       /\ Summary.succeeded + Summary.failed = args.users

\* global_start = time.time() (line 117) has been executed.
StartInstantTaken == mainpc # "start"
\* total_duration = time.time() - global_start (line 137) has been executed.
EndInstantTaken == mainpc = "finished"

\* C15: the start instant of the run's duration is taken before the first
\* session task is dispatched (as long as it is not taken, no task has been
\* submitted), and the end instant is taken only after all N session tasks
\* have been submitted and have reached DONE or FAILED.
C15_DurationSpansAllTasks ==
    /\ ~StartInstantTaken =>
          (submitted = 0 /\ \A s \in Sessions : phase[s] = "UNSUBMITTED")
    /\ EndInstantTaken => (submitted = args.users /\ AllTerminal)

C15_Witness ==
    /\ EndInstantTaken
    /\ args.users = 2
    /\ args.turns = 2
    /\ AllTerminal
    /\ total_duration = 2

\* C16: when every request returns, every pause ends and the threads are
\* scheduled fairly, every session task eventually reaches DONE or FAILED
\* and the run eventually ends (with the summary or with the exception main
\* re-raises), for every number of users and every pool size.
C16_RunTerminates ==
    <>[](MainTerminated /\ submitted = args.users /\ AllTerminal)

\* Two users on one worker, pausing between their two turns, have finished.
C16_Witness ==
    /\ mainpc = "finished"
    /\ args.users = 2
    /\ max_workers = 1
    /\ args.turns = 2
    /\ args.max_delay = 1
    /\ \A s \in 1..2 : phase[s] = "DONE" /\ slept[s] = 1

\* The transitions of the documented state machine of a session, preceded by
\* the submission and the start of its task.
DocumentedTransitions ==
    {<<"UNSUBMITTED", "QUEUED">>, <<"QUEUED", "INIT">>,
     <<"INIT", "LANDING_SENT">>,
     <<"LANDING_SENT", "TURN_SENT">>, <<"LANDING_SENT", "DONE">>,
     <<"LANDING_SENT", "FAILED">>,
     <<"TURN_SENT", "TURN_SENT">>, <<"TURN_SENT", "DELAY">>,
     <<"TURN_SENT", "DONE">>, <<"TURN_SENT", "FAILED">>,
     <<"DELAY", "TURN_SENT">>, <<"DELAY", "DONE">>}

\* The three documented causes of a failure: a transport error, a
\* non-success status, a body that is not parseable.
DocumentedCauses == {"ConnectionError", "HTTPError", "RuntimeError"}

\* C17: a session moves only along INIT -> LANDING_SENT -> (TURN_SENT ->
\* optional DELAY)* -> DONE, and enters FAILED only from LANDING_SENT or
\* TURN_SENT and only on a transport error, a non-success status or a
\* malformed body; nothing leaves DONE or FAILED.
C17_OnlyDocumentedTransitions ==
    [][\A s \in Sessions :
          (phase'[s] # phase[s] \/ turn'[s] # turn[s]) =>
             /\ <<phase[s], phase'[s]>> \in DocumentedTransitions
             /\ phase'[s] = "FAILED" => outcome'[s].exc \in DocumentedCauses]_vars

\* C18: when max_delay > 0, exactly one pause lies between a successful turn
\* i < T-1 and the request of turn i+1: the request of turn t is outstanding
\* after exactly t pauses, a session pausing after turn t is in its pause
\* number t+1, and a session in DONE with T >= 1 has paused exactly T-1
\* times.
C18_OnePauseBetweenTurns ==
    args.max_delay > 0 =>
       \A s \in Sessions :
          /\ phase[s] = "TURN_SENT" => slept[s] = turn[s]
          /\ phase[s] = "DELAY" =>
                (slept[s] = turn[s] + 1 /\ turn[s] < args.turns - 1)
          /\ (phase[s] = "DONE" /\ args.turns >= 1) =>
                slept[s] = args.turns - 1

\* The request of turn 1 is outstanding, after one pause of length 1.
C18_Witness ==
    \E s \in Sessions :
        /\ args.min_delay = 1
        /\ args.max_delay = 1
        /\ phase[s] = "TURN_SENT"
        /\ turn[s] = 1
        /\ slept[s] = 1

Lower(a, b) == IF a <= b THEN a ELSE b
Higher(a, b) == IF a <= b THEN b ELSE a

\* C19 as stated: every pause has a duration d with min_delay <= d <=
\* max_delay, for every pair with max_delay > 0, min_delay > max_delay
\* included.
C19_PauseWithinMinMax ==
    \A s \in Sessions :
        phase[s] = "DELAY" =>
            (args.min_delay <= delay[s] /\ delay[s] <= args.max_delay)

\* C19 as amended: every pause has a duration d between min_delay and
\* max_delay in whichever order they are, min(min_delay, max_delay) <= d <=
\* max(min_delay, max_delay), and d >= 0, for every pair with max_delay > 0;
\* that is min_delay <= d <= max_delay when min_delay <= max_delay.
C19_PauseBetweenBounds ==
    \A s \in Sessions :
        phase[s] = "DELAY" =>
            /\ args.max_delay > 0
            /\ Lower(args.min_delay, args.max_delay) <= delay[s]
            /\ delay[s] <= Higher(args.min_delay, args.max_delay)
            /\ delay[s] >= 0
            /\ args.min_delay <= args.max_delay =>
                  (args.min_delay <= delay[s] /\ delay[s] <= args.max_delay)

\* With min_delay 2 and max_delay 1 a session pauses for 2.
C19_Witness ==
    \E s \in Sessions :
        /\ args.min_delay = 2
        /\ args.max_delay = 1
        /\ phase[s] = "DELAY"
        /\ delay[s] = 2

\* A turn answered with a success status and a body that is no JSON.
NonJsonTurnResponses ==
    {r \in Responses :
        r.kind = "response" /\ ~RaiseForStatus(r.status) /\ ~r.parseable}

\* C20: a turn response with a success status whose body does not parse
\* makes the session fail at that turn: it goes to FAILED, the request is
\* counted as issued, the failure records the session identifier and the raw
\* body, and the session issues no further request.
C20_NonJsonTurnFails ==
    [][\A s \in Sessions :
          /\ \A r \in NonJsonTurnResponses :
                TurnResponse(s, r) =>
                    /\ phase'[s] = "FAILED"
                    /\ turn'[s] = turn[s]
                    /\ issued'[s] = issued[s]
                    /\ s_total_requests'[s] = s_total_requests[s] + 1
                    /\ s_total_requests'[s] = issued[s]
                    /\ outcome'[s] =
                          [kind |-> "error", exc |-> "RuntimeError",
                           session_id |-> SessionId(s), body |-> r.body]
          /\ (phase[s] = "FAILED" /\ "body" \in DOMAIN outcome[s]) =>
                /\ phase'[s] = "FAILED"
                /\ issued'[s] = issued[s]
                /\ outcome'[s] = outcome[s]
      ]_vars

\* Turn 1 of a two-turn session came back 200 with an HTML page: the session
\* has failed there with 3 requests counted, none after it, and its failure
\* holds the identifier and the page.
C20_Witness ==
    \E s \in Sessions :
        /\ args.turns = 2
        /\ phase[s] = "FAILED"
        /\ turn[s] = 1
        /\ issued[s] = 3
        /\ s_total_requests[s] = 3
        /\ outcome[s] = NonJsonFailure(SessionId(s), "<html>")
        /\ consumed[s] = 1

\* C21: each session issues exactly one landing request, before any turn
\* request, then its turn requests with indexes 0, 1, ... in increasing
\* order without gap or repetition and never beyond T-1; each turn request
\* carries the session identifier and the interview key of the landing
\* request.
C21_LandingThenTurnsInOrder ==
    \A s \in Sessions :
        /\ Len(sent[s]) = issued[s]
        /\ Len(sent[s]) <= 1 + args.turns
        /\ phase[s] \in {"LANDING_SENT", "TURN_SENT", "DELAY", "DONE"} =>
              Len(sent[s]) >= 1
        /\ \A i \in 1..Len(sent[s]) :
              /\ i = 1 => sent[s][i] =
                    LandingRequest(SessionId(s), args.interview_id)
              /\ i > 1 =>
                    /\ sent[s][i].method = "POST"
                    /\ sent[s][i].user_message = <<"Dummy answer turn", i - 2>>
                    /\ i - 2 <= args.turns - 1
                    /\ sent[s][i].session_id = sent[s][1].session_id
                    /\ sent[s][i].interview_id = sent[s][1].interview_id
        /\ phase[s] = "TURN_SENT" => turn[s] = Len(sent[s]) - 2

\* A session of two turns is DONE after its landing request and the turn
\* requests 0 and 1.
C21_Witness ==
    \E s \in Sessions :
        /\ args.turns = 2
        /\ phase[s] = "DONE"
        /\ Len(sent[s]) = 3
        /\ sent[s][1].method = "GET"
        /\ sent[s][3].user_message = <<"Dummy answer turn", 1>>

\* C22: each submitted task is started exactly once, by exactly one worker;
\* a worker runs a session from its start to its terminal state before it
\* takes another, and a queued session starts only when a worker is free.
C22_OneWorkerPerTask ==
    [][\A s \in Sessions :
          /\ worker'[s] # worker[s] =>
                /\ phase[s] = "QUEUED"
                /\ phase'[s] = "INIT"
                /\ worker[s] = 0
                /\ worker'[s] \in 1..max_workers
                /\ \A r \in Sessions :
                      phase[r] \in Started => worker[r] # worker'[s]
          /\ (phase[s] = "QUEUED" /\ phase'[s] # "QUEUED") =>
                (phase'[s] = "INIT" /\ worker'[s] # worker[s])
          /\ phase'[s] = "QUEUED" => phase[s] \in {"UNSUBMITTED", "QUEUED"}
          /\ phase'[s] \in Started \cup Terminal <=> worker'[s] # 0
          /\ \A r \in Sessions \ {s} :
                (phase'[s] \in Started /\ phase'[r] \in Started) =>
                    worker'[s] # worker'[r]
          /\ (mainpc' \in {"finished", "crashed"} /\ s <= submitted') =>
                worker'[s] # 0
      ]_vars

\* With two users and a pool of one worker, the worker has run session 1 to
\* its end and is now running session 2.
C22_Witness ==
    /\ args.users = 2
    /\ max_workers = 1
    /\ phase[1] \in Terminal
    /\ worker[1] = 1
    /\ phase[2] \in Started
    /\ worker[2] = 1

\* C23: the effective worker-pool size equals the override when an override
\* is given and the number of users otherwise, and the pool is always created
\* with a size of at least 1, for every users count and every override.
C23_PoolSizeOverrideOrUsers ==
    mainpc # "start" =>
        /\ max_workers = IF args.max_workers # <<>>
                           THEN args.max_workers[1]
                           ELSE args.users
        /\ max_workers >= 1
        /\ ~(raised = "ValueError" /\ submitted = 0 /\ mainpc = "crashed")

\* C24: a step of one session (sending a request, receiving a response,
\* pausing, finishing or failing) changes only that session's own state and
\* leaves the state of every other session and the aggregator's running
\* total unchanged.
C24_SessionStepFrame ==
    [][\A s \in Sessions :
          SessionStep(s) =>
              /\ SessionState(s)' # SessionState(s)
              /\ \A r \in Sessions \ {s} : SessionState(r)' = SessionState(r)
              /\ total_requests' = total_requests
              /\ <<consumed, counted, mainpc>>' = <<consumed, counted, mainpc>>
      ]_vars

\* Session 2 has received the response of its landing request while session
\* 1 is waiting for the response of a turn and main has a running total.
C24_Witness ==
    /\ phase[1] = "DONE"
    /\ total_requests = counted[1]
    /\ counted[1] > 0
    /\ phase[2] = "TURN_SENT"
    /\ s_total_requests[2] = 1

\* The request count of the outcome of each session (0 for none).
OutcomeCounts ==
    [s \in Sessions |->
        IF outcome[s].kind = "ok" THEN outcome[s].requestCount ELSE 0]

\* The final total is the sum of the counts of the outcomes, whatever the
\* order in which they came and were consumed.
FinalTotalIsSumOfOutcomes ==
    mainpc = "finished" =>
        /\ \A s \in 1..args.users : outcome[s].kind = "ok"
        /\ total_requests = SumTo(OutcomeCounts, args.users)

\* C25 as stated: outcomes are consumed in completion order (a session that
\* completed before another is consumed before it), which may differ from
\* submission order, and the final total is the same for every completion
\* order and interleaving.
C25_ConsumedInCompletionOrder ==
    /\ []FinalTotalIsSumOfOutcomes
    /\ \A s, r \in Sessions :
          []((phase[s] \in Terminal /\ phase[r] \notin Terminal) =>
                [](consumed[r] > 0 => consumed[s] > 0))

\* C25 as amended: an outcome is consumed only once it is complete, in an
\* order that may differ from submission order and from completion order
\* (the next outcome consumed is any completed one not consumed yet), and
\* the final total is the sum of the request counts of the outcomes, the
\* same for every order and interleaving.
C25_TotalIndependentOfOrder ==
    /\ FinalTotalIsSumOfOutcomes
    /\ \A s \in Sessions :
          /\ consumed[s] > 0 => (phase[s] \in Terminal /\ s <= args.users)
          /\ counted[s] > 0 => counted[s] = OutcomeCounts[s]
    /\ mainpc = "collect" =>
          total_requests = SumTo(counted, args.users)

\* The outcome of session 2 is consumed and counted while that of session
\* 1, submitted first and complete, is not yet.
C25_Witness ==
    /\ mainpc = "collect"
    /\ phase[1] = "DONE"
    /\ consumed[1] = 0
    /\ consumed[2] = 1
    /\ total_requests = OutcomeCounts[2]
    /\ total_requests > 0

\* The requests of session s for which a response has been received: those
\* the transport has returned from, less the one that ended in a transport
\* error (an exception and no response), which ends the session.
ResponsesReceived(s) ==
    answered[s] - (IF outcome[s] = Failure("ConnectionError") THEN 1 ELSE 0)

\* C26: at every point of a session its running request count is the number
\* of requests for which a response, success or not, has been received: a
\* request is counted when its response arrives, before the status is
\* checked, and a request that ends in a transport error is not counted.
C26_CountsResponsesReceived ==
    \A s \in Sessions :
        /\ s_total_requests[s] = ResponsesReceived(s)
        /\ outcome[s] = Failure("HTTPError") =>
              s_total_requests[s] = answered[s]
        /\ outcome[s] = Failure("ConnectionError") =>
              s_total_requests[s] = issued[s] - 1
        /\ phase[s] \in {"LANDING_SENT", "TURN_SENT"} =>
              s_total_requests[s] = issued[s] - 1

\* Session 1 failed on a turn answered with a non-success status, which it
\* counted; session 2 failed on a turn that ended in a transport error, which
\* it did not count.
C26_Witness ==
    /\ outcome[1] = Failure("HTTPError")
    /\ answered[1] = 2
    /\ s_total_requests[1] = 2
    /\ outcome[2] = Failure("ConnectionError")
    /\ answered[2] = 2
    /\ s_total_requests[2] = 1

\* C27: a session configured with T = 0 turns issues only the landing
\* request, takes no pause, and on a successful landing response reaches DONE
\* with a success outcome whose request count is 1.
C27_ZeroTurnsLandingOnly ==
    args.turns = 0 =>
        \A s \in Sessions :
            /\ issued[s] <= 1
            /\ Len(sent[s]) = 1 =>
                  sent[s][1] = LandingRequest(SessionId(s), args.interview_id)
            /\ slept[s] = 0
            /\ phase[s] \notin {"TURN_SENT", "DELAY"}
            /\ (answered[s] = 1 /\ s_total_requests[s] = 1
                  /\ outcome[s] # Failure("HTTPError")) =>
                  (phase[s] = "DONE" /\ outcome[s] = Success(1))
            /\ phase[s] = "DONE" => outcome[s] = Success(1)

\* With T = 0 and a positive max_delay, a session is DONE with a count of 1
\* after its landing request alone.
C27_Witness ==
    \E s \in Sessions :
        /\ args.turns = 0
        /\ args.max_delay > 0
        /\ phase[s] = "DONE"
        /\ issued[s] = 1
        /\ outcome[s] = Success(1)

\* C28: the aggregator's running total is written only by the consuming
\* thread, never by a worker, and only while consuming an outcome; it starts
\* at 0, never decreases, and each consumed success outcome increases it by
\* exactly that outcome's request count.
C28_TotalWrittenOnlyByConsumer ==
    /\ total_requests = 0
    /\ [][/\ total_requests' >= total_requests
          /\ total_requests' # total_requests =>
                /\ mainpc = "collect"
                /\ \E s \in Sessions :
                      /\ consumed'[s] = consumed[s] + 1
                      /\ phase[s] \in Terminal
                      /\ outcome[s].kind = "ok"
                      /\ total_requests' =
                            total_requests + outcome[s].requestCount
          /\ \A s \in Sessions :
                /\ (consumed'[s] # consumed[s] /\ outcome[s].kind = "ok") =>
                      total_requests' =
                          total_requests + outcome[s].requestCount
                /\ (consumed'[s] # consumed[s] /\ outcome[s].kind # "ok") =>
                      total_requests' = total_requests
                /\ SessionState(s)' # SessionState(s) =>
                      total_requests' = total_requests
      ]_vars

\* Both outcomes of a run of two users and two turns have been consumed and
\* the total is the sum of their counts.
C28_Witness ==
    /\ args.users = 2
    /\ args.turns = 2
    /\ consumed[1] = 1
    /\ consumed[2] = 1
    /\ outcome[1] = Success(3)
    /\ outcome[2] = Success(3)
    /\ total_requests = 6

\* The characters of a sequence.
Range(f) == {f[i] : i \in 1..Len(f)}

\* C29: the session identifier generator, for every target length L >= 0,
\* returns a string of exactly L characters, each an upper-case letter, a
\* lower-case letter or a digit.
C29_IdLengthAndAlphabet ==
    result.kind = "str" =>
        /\ length >= 0
        /\ Len(result.text) = length
        /\ \A i \in 1..Len(result.text) :
              result.text[i] \in Range(AsciiUppercase) \cup Range(AsciiLowercase)
                            \cup Range(Digits)

\* A call with length 2 has returned "Z9".
C29_Witness ==
    /\ length = 2
    /\ result = Returned(<<"Z", "9">>)

====
